---- MODULE Spec2Model ----
(***************************************************************************)
(* Phone Support Timer (src/call_timer.py): the call timer state machine,  *)
(* the billing computation and the monthly CSV ledger of CallTimerApp.     *)
(*                                                                         *)
(* Time: `now` is time.perf_counter() in whole seconds; `wall` is the      *)
(* calendar month shown by dt.datetime.now(), counted in months from       *)
(* December 2026 (so that the model crosses a year boundary).              *)
(* Money: a cost is kept exactly, as a number of 1/3600 dollars, so that   *)
(* (rate_per_hour / 3600.0) * secs is rate_per_hour * secs.                *)
(***************************************************************************)
EXTENDS Integers, Sequences, FiniteSets, TLC

\* ------------------------------------------------------------- bounds
MaxClock == 5
MaxStep == 2
MaxSkew == 1
MaxWall == 1
MaxCalls == 2
MaxMinutes == 5

\* ---------------------------------------------------------- constants
DEFAULT_RATE == 120
DEFAULT_MIN == 10
SecondsPerHour == 3600
SecondsPerMinute == 60
None == -1

CSV_HEADERS ==
    <<"CUSTOMER_NAME", "CUSTOMER_NUMBER", "START_TIME", "END_TIME",
      "TOTAL_$", "RATE_$", "TECH_NOTES">>

VARIABLES
    now,              \* time.perf_counter(), seconds
    wall,             \* dt.datetime.now(), months since December 2026
    files,            \* the partition files: path -> [exists, rows]
    disk,             \* "ok", or "faulty": a directory or file operation may fail
    cfg_file,         \* the settings file at CONFIG_PATH
    rate_per_hour,    \* self.rate_per_hour, dollars per hour
    minimum_minutes,  \* self.minimum_minutes
    minimum_secs,     \* self.minimum_secs
    running,          \* self.running
    paused,           \* self.paused
    start_time,       \* self.start_time (None or a perf_counter value)
    call_started_at,  \* self.call_started_at (None or a wall value)
    paused_accum,     \* self.paused_accum
    pause_started,    \* self.pause_started (None or a perf_counter value)
    pause_btn,        \* text of self.pause_btn
    elapsed_lbl,      \* text of self.elapsed_lbl, as <<h, m, s>>
    cost_lbl,         \* value shown by self.cost_lbl, in 1/3600 dollars
    month_log,        \* self.month_log, the path behind the footer link
    pc,               \* "main": main loop; "summary": on_end waits in wait_window
    rec,              \* on_end's locals, captured by the summary popup
    name_ent,         \* text of the popup's Customer Name entry
    notices,          \* the message boxes shown by the last handler
    last_op,          \* observer: the handler that ran last
    g_start,          \* observer: the clock when the session was started
    g_paused,         \* observer: seconds the session has spent paused
    g_ends,           \* observer: number of end() on an active session
    g_saved,          \* observer: path -> rows whose append succeeded, in order
    g_failed,         \* observer: path -> some write to it has failed
    g_init,           \* observer: the partition files at program start
    q_secs,           \* observer: result of the last elapsed-seconds query
    q_kind            \* observer: "run" or "pause", the state the session was in
                      \* at the last query and has been in since; else "none"

timer == <<running, paused, start_time, call_started_at, paused_accum, pause_started>>
config == <<rate_per_hour, minimum_minutes, minimum_secs, cfg_file>>
labels == <<elapsed_lbl, cost_lbl>>
ledger == <<files, g_saved, g_failed>>
env == <<wall, disk>>
queries == <<q_secs, q_kind>>
vars == <<now, wall, files, disk, cfg_file, name_ent, rate_per_hour, minimum_minutes, minimum_secs,
          running, paused, start_time, call_started_at, paused_accum,
          pause_started, pause_btn, elapsed_lbl, cost_lbl, month_log, pc, rec,
          notices, last_op, g_start, g_paused, g_ends, g_saved, g_failed,
          g_init, q_secs, q_kind>>

\* ------------------------------------------------------ small helpers
Max(a, b) == IF a >= b THEN a ELSE b

\* math.ceil(n / d) for an integer n and d > 0
Ceil(n, d) == -((-n) \div d)

\* f"{x:.2f}" of a whole number x
Fmt2f(x) == ToString(x) \o ".00"

\* strftime("%Y") and strftime("%m") of a wall value
StrfY(when) == ToString(2026 + ((when + 11) \div 12))
StrfM(when) ==
    LET m == ((when + 11) % 12) + 1
    IN  IF m < 10 THEN "0" \o ToString(m) ELSE ToString(m)

\* strftime("%Y-%m-%d %H:%M:%S"), cut after the month
StrfStamp(when) == StrfY(when) \o "-" \o StrfM(when)

\* month_log_path: <CONFIG_DIR>/<YYYY>/<MM>/call_log.csv
month_log_path(when) == <<StrfY(when), StrfM(when), "call_log.csv">>

Walls == 0..MaxWall
Paths == {month_log_path(w) : w \in Walls}

\* --------------------------------------------------- timing and cost
\* _elapsed_seconds, with self.paused_accum = accum and self.pause_started =
\* pstarted; n1 and n2 are the values of its two reads of _now()
_elapsed_seconds(accum, pstarted, n1, n2) ==
    IF ~running \/ start_time = None
    THEN 0
    ELSE LET base == n1 - start_time - accum
         IN  IF paused /\ pstarted # None
             THEN Max(0, base - (n2 - pstarted))
             ELSE Max(0, base)

\* _format_hms, as <<hours, minutes, seconds>>
_format_hms(secs) ==
    <<secs \div SecondsPerHour,
      (secs % SecondsPerHour) \div SecondsPerMinute,
      (secs % SecondsPerHour) % SecondsPerMinute>>

\* _raw_cost, in 1/3600 dollars
_raw_cost(secs) == rate_per_hour * secs

\* mutant of _effective_cost: the minimum itself is charged
_effective_cost_strict(secs) == IF secs < minimum_secs THEN 0 ELSE _raw_cost(secs)

\* _effective_cost, in 1/3600 dollars
_effective_cost(secs) == IF secs <= minimum_secs THEN 0 ELSE _raw_cost(secs)

\* mutant of final_cost_of: rounds down
final_cost_floor(eff_cost) == IF eff_cost = 0 THEN 0 ELSE eff_cost \div SecondsPerHour

\* final_cost of on_end: 0 if eff_cost == 0 else math.ceil(eff_cost)
final_cost_of(eff_cost) == IF eff_cost = 0 THEN 0 ELSE Ceil(eff_cost, SecondsPerHour)

\* ------------------------------------------------------ initial state
Names == {"", "Ann"}

\* what _load_config returns: <<rate, minimum>>, the defaults or the values of
\* the settings file
Rates == {-90, -1, 0, 1, 90, DEFAULT_RATE}
Minimums == {-1, 0, 1, DEFAULT_MIN}
Settings == {<<DEFAULT_RATE, DEFAULT_MIN>>, <<90, 0>>}

Absent == [exists |-> FALSE, rows |-> <<>>]
Empty == [exists |-> TRUE, rows |-> <<>>]
OldRow == <<"Old", "", "2026-11", "2026-11", "0.00", "120.00", "">>
Written == [exists |-> TRUE, rows |-> <<CSV_HEADERS, OldRow>>]
InitialFiles == {Absent, Empty, Written}

\* the settings file: not there, there with text that json.load or the
\* conversions reject, or there with a rate and a minimum
Missing == [kind |-> "missing", rate |-> 0, minimum |-> 0]
Corrupt == [kind |-> "corrupt", rate |-> 0, minimum |-> 0]
Holds(s) == [kind |-> "valid", rate |-> s[1], minimum |-> s[2]]

NoRec == [secs |-> 0, raw_cost |-> 0, eff_cost |-> 0, final_cost |-> 0,
          start_dt |-> 0, end_dt |-> 0, rate |-> 0, g_end |-> 0]

\* CallTimerApp.__init__ with the settings s, the partition files f, and the
\* clocks at n and w
Construct(s, f, n, w) ==
    /\ now = n
    /\ wall = w
    /\ files = f
    /\ disk = "ok"
    /\ cfg_file = Holds(s)
    /\ name_ent = ""
    /\ rate_per_hour = s[1]
    /\ minimum_minutes = s[2]
    /\ minimum_secs = s[2] * SecondsPerMinute
    /\ paused = FALSE
    /\ paused_accum = 0
    /\ pause_started = None
    /\ pause_btn = "Pause"
    /\ elapsed_lbl = _format_hms(0)
    /\ cost_lbl = 0
    /\ month_log = month_log_path(w)
    /\ pc = "main"
    /\ rec = NoRec
    /\ notices = <<>>
    /\ last_op = "init"
    /\ g_paused = 0
    /\ g_ends = 0
    /\ g_saved = [p \in Paths |-> <<>>]
    /\ g_failed = [p \in Paths |-> FALSE]
    /\ g_init = f
    /\ q_secs = 0
    /\ q_kind = "none"

\* no call yet
Idle ==
    /\ running = FALSE
    /\ start_time = None
    /\ call_started_at = None
    /\ g_start = None

\* a call started at clock 0
InCall ==
    /\ running = TRUE
    /\ start_time = 0
    /\ call_started_at = 0
    /\ g_start = 0

\* the program started on a fresh storage root
Init ==
    \E s \in Settings :
        Construct(s, [p \in Paths |-> Absent], 0, 0) /\ Idle

\* the program started on a storage root that may hold partition files
LedgerInit ==
    \E f \in [Paths -> InitialFiles] :
        Construct(<<90, 0>>, f, 0, 0) /\ Idle

\* a call that has been running, unpaused, for e seconds
ElapsedSamples ==
    {0, 1, 2, 29, 30, 31, 59, 60, 61, 240, 599, 600, 601, 3599, 3600, 3601}
BillingInit ==
    \E r \in Rates, m \in Minimums, e \in ElapsedSamples :
        Construct(<<r, m>>, [p \in Paths |-> Absent], e, 0) /\ InCall

\* ------------------------------------------------------------ clocks
\* the session spends d more seconds; a session that is paused spends them paused
Pass(d) ==
    /\ now' = now + d
    /\ g_paused' = IF pc = "main" /\ running /\ paused
                   THEN g_paused + d ELSE g_paused

Tick ==
    \E d \in 1..MaxStep :
        /\ now + d <= MaxClock
        /\ Pass(d)
        /\ UNCHANGED <<last_op, env, files, name_ent, config, timer, pause_btn, labels, month_log,
                       pc, rec, notices, g_start, g_ends, g_saved, g_failed,
                       g_init, queries>>

\* a minute passes
Minute ==
    /\ now + SecondsPerMinute <= MaxMinutes * SecondsPerMinute
    /\ Pass(SecondsPerMinute)
    /\ UNCHANGED <<last_op, env, files, name_ent, config, timer, pause_btn, labels, month_log,
                   pc, rec, notices, g_start, g_ends, g_saved, g_failed,
                   g_init, queries>>

WallTick ==
    /\ wall < MaxWall
    /\ wall' = wall + 1
    /\ UNCHANGED <<last_op, now, disk, files, name_ent, config, timer, pause_btn, labels, month_log,
                   pc, rec, notices, g_start, g_paused, g_ends, g_saved,
                   g_failed, g_init, queries>>

\* --------------------------------------------------------- the display
\* _update_labels: the elapsed-seconds query of the live display; the clock
\* moves on by d between the two reads of _now() in _elapsed_seconds
_update_labels ==
    \E d \in 0..MaxSkew :
        /\ d > 0 => /\ now + d <= MaxClock
                     /\ running /\ start_time # None
                     /\ paused /\ pause_started # None
        /\ LET secs == _elapsed_seconds(paused_accum, pause_started, now, now + d)
           IN  /\ elapsed_lbl' = _format_hms(secs)
               /\ cost_lbl' = _effective_cost(secs)
               /\ q_secs' = secs
               /\ q_kind' = IF pc # "main" \/ ~running THEN "none"
                             ELSE IF paused THEN "pause" ELSE "run"
        /\ Pass(d)
        /\ UNCHANGED <<last_op, env, files, name_ent, config, timer, pause_btn, month_log, pc, rec,
                       notices, g_start, g_ends, g_saved, g_failed, g_init>>

\* ------------------------------------------------------------ actions
\* mutant of on_new_start: the pause state of the abandoned session is kept
on_new_start_carry ==
    /\ pc = "main"
    /\ notices' = IF running THEN <<"Start New Call?">> ELSE <<>>
    /\ last_op' = IF running THEN "restart" ELSE "new"
    /\ running' = TRUE
    /\ paused' = FALSE
    /\ start_time' = now
    /\ call_started_at' = wall
    /\ g_start' = now
    /\ g_paused' = 0
    /\ q_kind' = "none"
    /\ UNCHANGED <<now, env, files, name_ent, config, pause_btn, labels, month_log,
                   pc, rec, g_ends, g_saved, g_failed, g_init, q_secs,
                   paused_accum, pause_started>>

\* on_new, on an idle session or with the restart confirmed
on_new_start ==
    /\ pc = "main"
    /\ notices' = IF running THEN <<"Start New Call?">> ELSE <<>>
    /\ last_op' = IF running THEN "restart" ELSE "new"
    /\ running' = TRUE
    /\ paused' = FALSE
    /\ start_time' = now
    /\ call_started_at' = wall
    /\ paused_accum' = 0
    /\ pause_started' = None
    /\ g_start' = now
    /\ g_paused' = 0
    /\ q_kind' = "none"
    /\ UNCHANGED <<now, env, files, name_ent, config, pause_btn, labels, month_log, pc,
                   rec, g_ends, g_saved, g_failed, g_init, q_secs>>

\* mutant of on_new_declined: the declined restart resumes a paused session
on_new_declined_resume ==
    /\ pc = "main"
    /\ running
    /\ notices' = <<"Start New Call?">>
    /\ last_op' = "new_declined"
    /\ paused' = FALSE
    /\ UNCHANGED <<now, env, files, name_ent, config, running, start_time,
                   call_started_at, paused_accum, pause_started, pause_btn,
                   labels, month_log, pc, rec, g_start, g_paused, g_ends,
                   g_saved, g_failed, g_init, queries>>

\* on_new on an active session, the restart declined
on_new_declined ==
    /\ pc = "main"
    /\ running
    /\ notices' = <<"Start New Call?">>
    /\ last_op' = "new_declined"
    /\ UNCHANGED <<now, env, files, name_ent, config, timer, pause_btn, labels, month_log,
                   pc, rec, g_start, g_paused, g_ends, g_saved, g_failed,
                   g_init, queries>>

on_new == on_new_start \/ on_new_declined

\* mutant of on_pause: without the early return, an idle session is paused
on_pause_unguarded ==
    /\ pc = "main"
    /\ notices' = <<>>
    /\ IF ~running
       THEN /\ last_op' = "pause_idle"
            /\ paused' = TRUE
            /\ pause_started' = now
            /\ pause_btn' = "Resume"
            /\ UNCHANGED <<running, start_time, call_started_at, paused_accum, q_kind>>
       ELSE IF ~paused
       THEN /\ paused' = TRUE
            /\ pause_started' = now
            /\ pause_btn' = "Resume"
            /\ q_kind' = q_kind
            /\ last_op' = "pause"
            /\ UNCHANGED <<running, start_time, call_started_at, paused_accum>>
       ELSE /\ paused' = FALSE
            /\ paused_accum' = IF pause_started # None
                               THEN paused_accum + (now - pause_started)
                               ELSE paused_accum
            /\ pause_started' = None
            /\ pause_btn' = "Pause"
            /\ q_kind' = IF q_kind = "pause" THEN "none" ELSE q_kind
            /\ last_op' = "resume"
            /\ UNCHANGED <<running, start_time, call_started_at>>
    /\ UNCHANGED <<now, env, files, name_ent, config, labels, month_log, pc, rec,
                   g_start, g_paused, g_ends, g_saved, g_failed, g_init,
                   q_secs>>

\* mutant of on_pause: resume leaves pause_started as it is
on_pause_keeps_mark ==
    /\ pc = "main"
    /\ notices' = <<>>
    /\ IF ~running
       THEN /\ last_op' = "pause_idle"
            /\ UNCHANGED <<timer, pause_btn, q_kind>>
       ELSE IF ~paused
       THEN /\ paused' = TRUE
            /\ pause_started' = now
            /\ pause_btn' = "Resume"
            /\ q_kind' = q_kind
            /\ last_op' = "pause"
            /\ UNCHANGED <<running, start_time, call_started_at, paused_accum>>
       ELSE /\ paused' = FALSE
            /\ paused_accum' = IF pause_started # None
                               THEN paused_accum + (now - pause_started)
                               ELSE paused_accum
            /\ pause_started' = pause_started
            /\ pause_btn' = "Pause"
            /\ q_kind' = IF q_kind = "pause" THEN "none" ELSE q_kind
            /\ last_op' = "resume"
            /\ UNCHANGED <<running, start_time, call_started_at>>
    /\ UNCHANGED <<now, env, files, name_ent, config, labels, month_log, pc, rec,
                   g_start, g_paused, g_ends, g_saved, g_failed, g_init,
                   q_secs>>

\* on_pause: does nothing without a call, else toggles pause and resume
on_pause ==
    /\ pc = "main"
    /\ notices' = <<>>
    /\ IF ~running
       THEN /\ last_op' = "pause_idle"
            /\ UNCHANGED <<timer, pause_btn, q_kind>>
       ELSE IF ~paused
       THEN /\ paused' = TRUE
            /\ pause_started' = now
            /\ pause_btn' = "Resume"
            /\ q_kind' = q_kind
            /\ last_op' = "pause"
            /\ UNCHANGED <<running, start_time, call_started_at, paused_accum>>
       ELSE /\ paused' = FALSE
            /\ paused_accum' = IF pause_started # None
                               THEN paused_accum + (now - pause_started)
                               ELSE paused_accum
            /\ pause_started' = None
            /\ pause_btn' = "Pause"
            /\ q_kind' = IF q_kind = "pause" THEN "none" ELSE q_kind
            /\ last_op' = "resume"
            /\ UNCHANGED <<running, start_time, call_started_at>>
    /\ UNCHANGED <<now, env, files, name_ent, config, labels, month_log, pc, rec,
                   g_start, g_paused, g_ends, g_saved, g_failed, g_init,
                   q_secs>>

\* mutant of ResetSession: the pause time of the call is kept
ResetSession_keep ==
    /\ running' = FALSE
    /\ paused' = FALSE
    /\ start_time' = None
    /\ call_started_at' = None
    /\ paused_accum' = paused_accum
    /\ pause_started' = None
    /\ pause_btn' = "Pause"
    /\ pc' = "main"
    /\ rec' = NoRec
    /\ name_ent' = ""
    /\ g_start' = None
    /\ g_paused' = 0
    /\ q_kind' = "none"

\* lines 524-532 of on_end: the reset after the summary popup has closed
\* (the popup and its entry are gone by then)
ResetSession ==
    /\ running' = FALSE
    /\ paused' = FALSE
    /\ start_time' = None
    /\ call_started_at' = None
    /\ paused_accum' = 0
    /\ pause_started' = None
    /\ pause_btn' = "Pause"
    /\ pc' = "main"
    /\ rec' = NoRec
    /\ name_ent' = ""
    /\ g_start' = None
    /\ g_paused' = 0
    /\ q_kind' = "none"

\* mutant of on_end_idle: the box is shown and the clock is started
on_end_idle_starts ==
    /\ pc = "main"
    /\ ~running
    /\ notices' = <<"No Active Call">>
    /\ last_op' = "end_idle"
    /\ start_time' = now
    /\ UNCHANGED <<now, env, files, name_ent, config, running, paused,
                   call_started_at, paused_accum, pause_started, pause_btn,
                   labels, month_log, pc, rec, g_start, g_paused, g_ends,
                   g_saved, g_failed, g_init, queries>>

\* on_end without a call: the "No Active Call" box
on_end_idle ==
    /\ pc = "main"
    /\ ~running
    /\ notices' = <<"No Active Call">>
    /\ last_op' = "end_idle"
    /\ UNCHANGED <<now, env, files, name_ent, config, timer, pause_btn, labels,
                   month_log, pc, rec, g_start, g_paused, g_ends, g_saved,
                   g_failed, g_init, queries>>

\* on_end on an active session, up to wait_window; when an open pause is
\* folded (line 501), the clock moves on by d before _elapsed_seconds reads it
on_end_call ==
    /\ pc = "main"
    /\ running
    /\ g_ends < MaxCalls
    /\ \E d \in 0..MaxSkew :
        /\ d > 0 => /\ now + d <= MaxClock
                     /\ paused /\ pause_started # None
        /\ LET fold == paused /\ pause_started # None
               accum == IF fold THEN paused_accum + (now - pause_started)
                        ELSE paused_accum
               pstarted == IF fold THEN None ELSE pause_started
               secs == _elapsed_seconds(accum, pstarted, now + d, now + d)
               eff_cost == _effective_cost(secs)
           IN  /\ paused_accum' = accum
               /\ pause_started' = pstarted
               /\ rec' = [secs |-> secs,
                          raw_cost |-> _raw_cost(secs),
                          eff_cost |-> eff_cost,
                          final_cost |-> final_cost_of(eff_cost),
                          start_dt |-> IF call_started_at # None
                                       THEN call_started_at ELSE wall,
                          end_dt |-> wall,
                          rate |-> rate_per_hour,
                          g_end |-> now + d]
        /\ Pass(d)
    /\ pc' = "summary"
    /\ g_ends' = g_ends + 1
    /\ notices' = <<>>
    /\ last_op' = "end"
    /\ UNCHANGED <<env, files, name_ent, config, running, paused, start_time,
                   call_started_at, pause_btn, labels, month_log, g_start,
                   g_saved, g_failed, g_init, queries>>

on_end == on_end_idle \/ on_end_call

\* the operator types into the Customer Name entry of the popup; the texts
\* have no blanks around them, so that strip() leaves them as they are
type_name ==
    /\ pc = "summary"
    /\ \E n \in Names : n # name_ent /\ name_ent' = n
    /\ UNCHANGED <<last_op, now, env, files, config, timer, pause_btn, labels,
                   month_log, pc, rec, notices, g_start, g_paused, g_ends,
                   g_saved, g_failed, g_init, queries>>

\* ------------------------------------------------------------ the ledger
\* the storage starts to fail (permissions, disk full, locked file)
DiskFails ==
    /\ disk = "ok"
    /\ disk' = "faulty"
    /\ UNCHANGED <<last_op, now, wall, files, name_ent, config, timer, pause_btn,
                   labels, month_log, pc, rec, notices, g_start, g_paused,
                   g_ends, g_saved, g_failed, g_init, queries>>

\* the storage works again
DiskHeals ==
    /\ disk = "faulty"
    /\ disk' = "ok"
    /\ UNCHANGED <<last_op, now, wall, files, name_ent, config, timer, pause_btn,
                   labels, month_log, pc, rec, notices, g_start, g_paused,
                   g_ends, g_saved, g_failed, g_init, queries>>

\* how os.makedirs can end, and how open() with the write that follows can
MkResults == IF disk = "ok" THEN {"ok"} ELSE {"ok", "raise"}
IoResults == IF disk = "ok" THEN {"ok"} ELSE {"ok", "open_failed", "write_failed"}

\* mutant of need_header: an empty file gets no header
need_header_absent(f) == ~f.exists

\* need_header of _ensure_log_header_month
need_header(f) == ~f.exists \/ Len(f.rows) = 0

\* mutant of _ensure_log_header_month: the file is opened with "w" each time
_ensure_log_header_rewrite(f, hdr) ==
    IF hdr = "ok" THEN [exists |-> TRUE, rows |-> <<CSV_HEADERS>>]
    ELSE IF hdr = "write_failed" THEN [exists |-> TRUE, rows |-> <<>>]
    ELSE f

\* _ensure_log_header_month: the file after it, when open(path, "w") and the
\* write of the header row end as hdr says
_ensure_log_header_month(f, hdr) ==
    IF ~need_header(f) THEN f
    ELSE IF hdr = "ok" THEN [exists |-> TRUE, rows |-> <<CSV_HEADERS>>]
    ELSE IF hdr = "write_failed" THEN [exists |-> TRUE, rows |-> <<>>]
    ELSE f

\* mutant of append_row: the row is written twice
append_row_twice(f, row, app) ==
    IF app = "ok" THEN [exists |-> TRUE, rows |-> Append(Append(f.rows, row), row)]
    ELSE IF app = "write_failed" THEN [exists |-> TRUE, rows |-> f.rows]
    ELSE f

\* lines 341-346 of _append_log_row_month: the file after open(path, "a") and
\* the write of the row end as app says
append_row(f, row, app) ==
    IF app = "ok" THEN [exists |-> TRUE, rows |-> Append(f.rows, row)]
    ELSE IF app = "write_failed" THEN [exists |-> TRUE, rows |-> f.rows]
    ELSE f

\* mutant of rowd: the charge is written without the minimum-time rule
rowd_unwaived ==
    <<name_ent, "", StrfStamp(rec.start_dt), StrfStamp(rec.end_dt),
      Fmt2f(Ceil(rec.raw_cost, SecondsPerHour)),
      Fmt2f(rec.rate), "">>

\* rowd of do_save, in the order of CSV_HEADERS
rowd ==
    <<name_ent, "", StrfStamp(rec.start_dt), StrfStamp(rec.end_dt),
      Fmt2f(IF rec.eff_cost = 0 THEN 0 ELSE rec.final_cost),
      Fmt2f(rec.rate), "">>

\* mutant of save_path: the month in which the operator saves
save_path_now == month_log_path(wall)

\* the path do_save writes to
save_path == month_log_path(rec.end_dt)

\* do_save: _append_log_row_month, close(), and the reset of on_end. When
\* os.makedirs raises (line 67 or 331) the exception leaves do_save before
\* close(): no box is shown and the popup stays open
do_save ==
    /\ pc = "summary"
    /\ \E mk \in MkResults, hdr \in IoResults, app \in IoResults :
        IF mk = "raise"
        THEN /\ hdr = "ok" /\ app = "ok"
             /\ notices' = <<>>
             /\ last_op' = "save_raised"
             /\ UNCHANGED <<files, timer, pause_btn, month_log, pc, rec, name_ent,
                            g_start, g_paused, g_saved, g_failed, q_kind>>
        ELSE LET path == save_path
                 f1 == _ensure_log_header_month(files[path], hdr)
                 f2 == append_row(f1, rowd, app)
                 hdr_failed == need_header(files[path]) /\ hdr # "ok"
             IN  /\ files' = [files EXCEPT ![path] = f2]
                 /\ notices' = (IF hdr_failed THEN <<"CSV Error">> ELSE <<>>)
                               \o (IF app # "ok" THEN <<"CSV Error">> ELSE <<>>)
                 /\ g_saved' = IF app = "ok"
                               THEN [g_saved EXCEPT ![path] = Append(@, rowd)]
                               ELSE g_saved
                 /\ g_failed' = [g_failed EXCEPT
                                    ![path] = @ \/ hdr_failed \/ app # "ok"]
                 /\ month_log' = path
                 /\ last_op' = IF app = "ok" THEN "save_ok" ELSE "save_failed"
                 /\ ResetSession
    /\ UNCHANGED <<now, env, config, labels, g_ends, g_init, q_secs>>

\* close(), from Skip or Escape, and the reset of on_end
close ==
    /\ pc = "summary"
    /\ notices' = <<>>
    /\ last_op' = "skip"
    /\ ResetSession
    /\ UNCHANGED <<now, env, files, config, labels, month_log, g_ends, g_saved,
                   g_failed, g_init, q_secs>>

\* ------------------------------------------------------------ startup
\* how the read of the settings file can end
ReadResults == IF disk = "ok" THEN {"ok"} ELSE {"ok", "open_failed"}

\* mutant of _load_config: a file that cannot be used is replaced by the defaults
_load_config_repair(cfg, cr, rd) ==
    IF cfg.kind = "valid" /\ rd = "ok"
    THEN [rate |-> cfg.rate, minimum |-> cfg.minimum, file |-> cfg, notices |-> <<>>]
    ELSE [rate |-> DEFAULT_RATE, minimum |-> DEFAULT_MIN,
          file |-> Holds(<<DEFAULT_RATE, DEFAULT_MIN>>),
          notices |-> IF cfg.kind = "missing" THEN <<>> ELSE <<"Config Error">>]

\* _load_config on the settings file cfg, when the creation of a missing file
\* ends as cr says and the read as rd says: what it returns, the file after
\* it, and the boxes it shows
_load_config(cfg, cr, rd) ==
    LET created == IF cfg.kind # "missing" THEN cfg
                   ELSE IF cr = "ok" THEN Holds(<<DEFAULT_RATE, DEFAULT_MIN>>)
                   ELSE IF cr = "write_failed" THEN Corrupt
                   ELSE Missing
    IN  IF (cfg.kind = "missing" /\ cr # "ok") \/ rd # "ok" \/ created.kind # "valid"
        THEN [rate |-> DEFAULT_RATE, minimum |-> DEFAULT_MIN,
              file |-> created, notices |-> <<"Config Error">>]
        ELSE [rate |-> created.rate, minimum |-> created.minimum,
              file |-> created, notices |-> <<>>]

\* the program before it is started: no CallTimerApp yet
Boot(c, k) ==
    /\ now = 0
    /\ wall = 0
    /\ files = [p \in Paths |-> Absent]
    /\ disk = k
    /\ cfg_file = c
    /\ name_ent = ""
    /\ rate_per_hour = 0
    /\ minimum_minutes = 0
    /\ minimum_secs = 0
    /\ paused = FALSE
    /\ paused_accum = 0
    /\ pause_started = None
    /\ pause_btn = "Pause"
    /\ elapsed_lbl = _format_hms(0)
    /\ cost_lbl = 0
    /\ month_log = <<>>
    /\ pc = "boot"
    /\ rec = NoRec
    /\ notices = <<>>
    /\ last_op = "boot"
    /\ g_paused = 0
    /\ g_ends = 0
    /\ g_saved = [p \in Paths |-> <<>>]
    /\ g_failed = [p \in Paths |-> FALSE]
    /\ g_init = [p \in Paths |-> Absent]
    /\ q_secs = 0
    /\ q_kind = "none"

CfgFiles == {Missing, Corrupt} \cup {Holds(s) : s \in Settings}

StartupInit ==
    \E c \in CfgFiles, k \in {"ok", "faulty"} : Boot(c, k) /\ Idle

\* the program starts: resolve_config_path (line 71), then __init__ with
\* _load_config (line 114) and the month_log_path of _build_ui (line 233).
\* os.makedirs at line 54 (reached when no settings file is found) and at
\* line 67 is in no try block: when it raises, the program ends
startup ==
    /\ pc = "boot"
    /\ \E rc \in MkResults, cr \in IoResults, rd \in ReadResults, mk \in MkResults :
        /\ rc = "raise" => cfg_file.kind = "missing"
        /\ IF rc = "raise"
           THEN /\ pc' = "dead"
                /\ notices' = <<>>
                /\ UNCHANGED <<config, month_log>>
           ELSE LET cfg == _load_config(cfg_file, cr, rd)
                IN  /\ rate_per_hour' = cfg.rate
                    /\ minimum_minutes' = cfg.minimum
                    /\ minimum_secs' = cfg.minimum * SecondsPerMinute
                    /\ cfg_file' = cfg.file
                    /\ notices' = cfg.notices
                    /\ IF mk = "raise"
                       THEN pc' = "dead" /\ UNCHANGED month_log
                       ELSE pc' = "main" /\ month_log' = month_log_path(wall)
    /\ last_op' = "init"
    /\ UNCHANGED <<now, env, files, name_ent, timer, pause_btn, labels, rec,
                   g_start, g_paused, g_ends, g_saved, g_failed, g_init, queries>>

\* ----------------------------------------------------- specifications
\* the timer and the popup, on a storage that works, within one month
Next ==
    \/ Tick
    \/ _update_labels
    \/ on_new
    \/ on_pause
    \/ on_end
    \/ do_save
    \/ close

Spec == Init /\ [][Next]_vars

\* the ledger: calls started and ended at once while the months pass, the
\* storage fails and works again, and the operator types a customer name
LedgerNext ==
    \/ WallTick
    \/ DiskFails
    \/ DiskHeals
    \/ on_new_start
    \/ on_end
    \/ type_name
    \/ do_save
    \/ close

LedgerSpec == LedgerInit /\ [][LedgerNext]_vars

BillingNext ==
    \/ on_end
    \/ do_save
    \/ close

BillingSpec == BillingInit /\ [][BillingNext]_vars

\* whole calls on a clock of minutes: started, paused, resumed, ended, saved
RowSettings == {<<90, 0>>, <<90, 4>>, <<0, 0>>, <<DEFAULT_RATE, DEFAULT_MIN>>}

RowInit ==
    \E s \in RowSettings :
        Construct(s, [p \in Paths |-> Absent], 0, 0) /\ Idle

RowNext ==
    \/ Minute
    \/ on_new_start
    \/ on_pause
    \/ on_end
    \/ do_save
    \/ close

RowSpec == RowInit /\ [][RowNext]_vars

\* the program from before its start, on a storage that may fail
StartupNext ==
    \/ startup
    \/ DiskFails
    \/ DiskHeals
    \/ on_new_start
    \/ on_end
    \/ do_save
    \/ close

StartupSpec == StartupInit /\ [][StartupNext]_vars

\* whole calls with pauses on a clock of minutes, on a storage that may fail
SessionNext ==
    \/ Minute
    \/ DiskFails
    \/ DiskHeals
    \/ on_new_start
    \/ on_pause
    \/ on_end
    \/ do_save
    \/ close

SessionInit == Construct(<<90, 0>>, [p \in Paths |-> Absent], 0, 0) /\ Idle

SessionSpec == SessionInit /\ [][SessionNext]_vars

\* =============================================================== claims
\* C1. Pause neutrality: the elapsed seconds computed by end() are the clock
\* at end minus the clock at start minus the time spent paused, a pause still
\* open at end() counted up to the instant of end().
C1_PauseNeutrality ==
    pc = "summary" => rec.secs = (rec.g_end - g_start) - g_paused

\* C2. Monotonic elapsed time: of two successive elapsed-seconds queries made
\* while the session is Running the second returns no less than the first,
\* and two successive queries made within one pause return the same value.
C2_MonotonicElapsed ==
    [][_update_labels =>
         /\ (q_kind = "run" /\ q_kind' = "run") => q_secs' >= q_secs
         /\ (q_kind = "pause" /\ q_kind' = "pause") => q_secs' = q_secs]_vars

\* the Running half of C2 alone
C2_RunningNeverDecreases ==
    [][_update_labels =>
         ((q_kind = "run" /\ q_kind' = "run") => q_secs' >= q_secs)]_vars

\* C3. Minimum-waiver boundary: the effective cost of an ended call is 0 when
\* elapsed <= minimum_minutes * 60 and rate_per_hour / 3600 * elapsed when
\* elapsed is more; with a minimum of 10 minutes and a rate of 120, 600 s cost
\* 0 and 601 s are charged 21.
C3_MinimumWaiverBoundary ==
    pc = "summary" =>
        /\ rec.secs <= minimum_minutes * 60 => rec.eff_cost = 0
        /\ rec.secs > minimum_minutes * 60 => rec.eff_cost = rate_per_hour * rec.secs
        /\ (minimum_minutes = 10 /\ rate_per_hour = 120 /\ rec.secs = 600)
               => rec.eff_cost = 0
        /\ (minimum_minutes = 10 /\ rate_per_hour = 120 /\ rec.secs = 601)
               => (rec.eff_cost = 120 * 601 /\ rec.final_cost = 21)

\* a call of 601 s at rate 120 with a minimum of 10 minutes, ended and charged
C3_Witness ==
    /\ pc = "summary"
    /\ minimum_minutes = 10 /\ rate_per_hour = 120
    /\ rec.secs = 601 /\ rec.final_cost = 21

\* C4. Rounding direction: final_charge is the least whole number that is no
\* less than a positive effective cost, and 0 when the effective cost is 0;
\* it is never less than the effective cost.
C4_RoundingDirection ==
    pc = "summary" =>
        /\ rec.eff_cost > 0 =>
               /\ rec.final_cost * 3600 >= rec.eff_cost
               /\ (rec.final_cost - 1) * 3600 < rec.eff_cost
        /\ rec.eff_cost = 0 => rec.final_cost = 0
        /\ rec.final_cost * 3600 >= rec.eff_cost

\* an ended call whose effective cost is not a whole number and is rounded up
C4_Witness ==
    /\ pc = "summary"
    /\ rec.eff_cost > 0
    /\ rec.eff_cost % 3600 # 0
    /\ rec.final_cost * 3600 > rec.eff_cost

\* C5. The final billed amount, and the TOTAL_$ written for it, is not
\* negative, for every rate and minimum the settings loader returns.
C5_NonNegativeCharge ==
    pc = "summary" =>
        /\ rec.final_cost >= 0
        /\ (IF rec.eff_cost = 0 THEN 0 ELSE rec.final_cost) >= 0

\* the data rows of a file, and the data rows written since the program started
DataRows(f) == Cardinality({i \in 1..Len(f.rows) : f.rows[i] # CSV_HEADERS})
RECURSIVE RowsWrittenIn(_)
RowsWrittenIn(ps) ==
    IF ps = {} THEN 0
    ELSE LET p == CHOOSE q \in ps : TRUE
         IN  (DataRows(files[p]) - DataRows(g_init[p])) + RowsWrittenIn(ps \ {p})
RowsWritten == RowsWrittenIn(Paths)

\* the summary popup closes in this step
PopupCloses == pc = "summary" /\ pc' = "main"

\* C6. At most one ledger row per call: an end() on an active session opens
\* one candidate record; closing it by a save whose append succeeds adds
\* exactly one data row, closing it by skip or by a failed append adds none;
\* the data rows written never exceed the end() operations performed.
C6_OneRowPerCall ==
    [][LET before == RowsWritten
           after == RowsWritten'
       IN  /\ after <= g_ends'
           /\ (pc = "main" /\ pc' = "summary") => g_ends' = g_ends + 1
           /\ (PopupCloses /\ last_op' = "save_ok") => after = before + 1
           /\ (PopupCloses /\ last_op' # "save_ok") => after = before
           /\ ~PopupCloses => after = before]_vars

\* two calls ended, one saved and one skipped
C6_Witness == g_ends = 2 /\ RowsWritten = 1 /\ last_op = "skip"

\* C7. Persistence failure keeps the record: after a save attempt in which
\* the header or the data row could not be written (a "CSV Error" box was
\* shown), the candidate record is still open for a retry; it is dropped only
\* by an explicit skip.
C7_FailedSaveKeepsRecord ==
    (last_op \in {"save_ok", "save_failed"} /\ notices # <<>>) =>
        (pc = "summary" /\ rec # NoRec)

\* C8. Idempotent header guarantee: a partition to which no write has failed
\* and N >= 1 rows were appended holds one header row and the N rows in
\* order when it was absent or empty at first, and its first content followed
\* by the N rows, with no header added, otherwise.
C8_HeaderOnce ==
    \A p \in Paths :
        (~g_failed[p] /\ Len(g_saved[p]) >= 1) =>
            files[p] = [exists |-> TRUE,
                        rows |-> (IF ~g_init[p].exists \/ g_init[p].rows = <<>>
                                  THEN <<CSV_HEADERS>> ELSE g_init[p].rows)
                                 \o g_saved[p]]

\* two rows appended to a partition that did not exist
C8_Witness ==
    \E p \in Paths :
        /\ ~g_failed[p] /\ ~g_init[p].exists
        /\ Len(g_saved[p]) = 2 /\ Len(files[p].rows) = 3

\* C9. Month partitioning: end() captures the end timestamp; a save appends
\* the row to the partition named by the year and month of that timestamp,
\* whatever the month of the start and the month of the save, and changes no
\* other partition file.
C9_MonthPartitioning ==
    [][/\ (pc = "main" /\ pc' = "summary") => rec'.end_dt = wall
       /\ (PopupCloses /\ last_op' = "save_ok") =>
              \E p \in Paths :
                  /\ p = <<StrfY(rec.end_dt), StrfM(rec.end_dt), "call_log.csv">>
                  /\ Len(files'[p].rows) >= 1
                  /\ files'[p].rows[Len(files'[p].rows)][4] = p[1] \o "-" \o p[2]
                  /\ g_saved'[p] # g_saved[p]
                  /\ \A q \in Paths \ {p} : files'[q] = files[q]
       /\ pc = "summary" => rec' \in {rec, NoRec}]_vars

\* a call started in December 2026 and ended in January 2027 is in the
\* January file, and the December file is as it was
C9_Witness ==
    /\ last_op = "save_ok"
    /\ g_init[month_log_path(0)] = Written
    /\ files[month_log_path(0)] = Written
    /\ Len(g_saved[month_log_path(1)]) = 1
    /\ g_saved[month_log_path(1)][1][3] = "2026-12"
    /\ g_saved[month_log_path(1)][1][4] = "2027-01"

\* C10. Restart discards the abandoned session: a confirmed start() on an
\* active session leaves it Running with paused_accum = 0, no open pause and
\* a fresh start timestamp, so that elapsed restarts from 0, and appends no
\* row and opens no record for the abandoned session.
C10_RestartDiscards ==
    [][(running /\ on_new_start) =>
         /\ running' /\ ~paused'
         /\ paused_accum' = 0
         /\ pause_started' = None
         /\ start_time' = now'
         /\ _elapsed_seconds(paused_accum, pause_started, now, now)' = 0
         /\ files' = files
         /\ pc' = "main" /\ rec' = rec /\ g_ends' = g_ends]_vars

\* a session restarted while it was paused, at a clock later than 0
C10_Witness ==
    /\ last_op = "restart"
    /\ running /\ ~paused
    /\ pause_btn = "Resume"
    /\ start_time = now /\ now > 0
    /\ paused_accum = 0 /\ pause_started = None

\* C11. No active call: end() on an idle session shows the "No Active Call"
\* box and changes no session field and no ledger file.
C11_EndIdleNoOp ==
    [][(pc = "main" /\ ~running /\ on_end) =>
         /\ notices' = <<"No Active Call">>
         /\ UNCHANGED timer
         /\ files' = files
         /\ pc' = "main" /\ g_ends' = g_ends]_vars

\* end() pressed on an idle session after a call has been saved
C11_Witness ==
    /\ last_op = "end_idle"
    /\ notices = <<"No Active Call">>
    /\ ~running /\ start_time = None
    /\ RowsWritten >= 1

\* C12. Every persistence failure is reported: a save attempt in which the
\* partition directory could not be created, the header could not be written
\* or the row could not be appended shows an error box to the operator.
C12_EveryFailureReported ==
    [][(pc = "summary" /\ do_save) =>
         ((\/ last_op' = "save_raised"
           \/ last_op' = "save_failed"
           \/ g_failed' # g_failed) => notices' # <<>>)]_vars

\* the failures of the header write and of the append alone are reported
C12_WriteFailuresReported ==
    [][(pc = "summary" /\ do_save) =>
         ((last_op' = "save_failed" \/ g_failed' # g_failed)
              => notices' # <<>>)]_vars

\* C13. Ledger row content: the row saved for an ended call has TOTAL_$
\* 0.00 when the finalized elapsed is <= minimum_minutes * 60 and otherwise
\* ceil(rate_per_hour / 3600 * elapsed) with two decimals, and RATE_$ the
\* session's rate; a call at rate 90 with no minimum, started at 0, paused
\* for 60 s and ended at 300 has elapsed 240, TOTAL_$ 6.00 and RATE_$ 90.00.
C13_RowContent ==
    [][(PopupCloses /\ last_op' = "save_ok") =>
         LET rows == files'[month_log_path(rec.end_dt)].rows
             row == rows[Len(rows)]
         IN  /\ Len(rows) >= 2
             /\ row[5] = IF rec.secs <= minimum_minutes * 60 THEN "0.00"
                         ELSE ToString(-((-(rate_per_hour * rec.secs)) \div 3600))
                                  \o ".00"
             /\ row[6] = ToString(rate_per_hour) \o ".00"
             /\ (/\ rate_per_hour = 90 /\ minimum_minutes = 0
                 /\ g_start = 0 /\ g_paused = 60 /\ rec.g_end = 300)
                    => (rec.secs = 240 /\ row[5] = "6.00" /\ row[6] = "90.00")]_vars

\* the row of a call of 240 s at rate 90 with no minimum, saved at clock 300
C13_Witness ==
    /\ last_op = "save_ok"
    /\ rate_per_hour = 90 /\ minimum_minutes = 0
    /\ now = 300 /\ g_ends = 1
    /\ g_saved[month_log_path(0)] =
           <<(<<"", "", "2026-12", "2026-12", "6.00", "90.00", "">>)>>
    /\ files[month_log_path(0)].rows[2][5] = "6.00"

\* a is b or the beginning of b
IsPrefix(a, b) == Len(a) <= Len(b) /\ SubSeq(b, 1, Len(a)) = a

\* C14. Append-only ledger: in every step, header creation and failed or
\* successful appends included, the content each partition file had before
\* is a prefix of its content after; no written row is rewritten, truncated
\* or deleted, and no file is removed.
C14_AppendOnly ==
    [][\A p \in Paths :
         /\ IsPrefix(files[p].rows, files'[p].rows)
         /\ files[p].exists => files'[p].exists]_vars

\* a partition written by an earlier run that has gained one row, after a
\* failed write to it
C14_Witness ==
    \E p \in Paths :
        /\ g_init[p] = Written
        /\ g_failed[p]
        /\ Len(files[p].rows) = 3
        /\ SubSeq(files[p].rows, 1, 2) = Written.rows

\* C15. Nothing is fatal: no I/O failure in the location or the load of the
\* settings, or in the creation of the ledger directory, the header write or
\* the row append, at startup or at save time, ends the program.
C15_NothingFatal == pc # "dead"

\* a save in which os.makedirs raises leaves the program running with the
\* summary still open
C15_SaveNotFatal == last_op = "save_raised" => pc = "summary"

\* C16. Settings fallback: a settings file that exists but cannot be read,
\* parsed or converted leaves the session with the defaults (rate 120,
\* minimum 10 minutes) and is not modified; a missing file is created with
\* those defaults, which the session then uses (when the creation fails, the
\* "Config Error" box is shown and the session uses the defaults all the same).
C16_SettingsFallback ==
    [][(pc = "boot" /\ pc' = "main") =>
         /\ cfg_file.kind # "missing" => cfg_file' = cfg_file
         /\ (cfg_file.kind = "corrupt" \/ (cfg_file.kind = "valid" /\ notices' # <<>>)) =>
                /\ rate_per_hour' = 120
                /\ minimum_minutes' = 10
                /\ minimum_secs' = 600
         /\ cfg_file.kind = "missing" =>
                /\ rate_per_hour' = 120
                /\ minimum_minutes' = 10
                /\ minimum_secs' = 600
                /\ notices' = <<>> =>
                       cfg_file' = [kind |-> "valid", rate |-> 120, minimum |-> 10]
         /\ (cfg_file.kind = "valid" /\ notices' = <<>>) =>
                /\ rate_per_hour' = cfg_file.rate
                /\ minimum_minutes' = cfg_file.minimum]_vars

\* the program started on a settings file that cannot be parsed
C16_Witness ==
    /\ last_op = "init" /\ pc = "main"
    /\ cfg_file = Corrupt
    /\ rate_per_hour = 120 /\ minimum_minutes = 10
    /\ notices = <<"Config Error">>

\* the program started without a settings file, which it has created
C16_Created ==
    /\ last_op = "init" /\ pc = "main"
    /\ cfg_file = Holds(<<120, 10>>)
    /\ notices = <<>>
    /\ disk = "faulty"

\* C17. Elapsed is frozen after end(): while the summary is open, every
\* elapsed-seconds query of the live display returns the finalized elapsed
\* value of the bill, and the cost shown is the cost billed.
C17_FrozenAfterEnd ==
    [][(pc = "summary" /\ _update_labels) =>
         /\ q_secs' = rec.secs
         /\ elapsed_lbl' = _format_hms(rec.secs)
         /\ cost_lbl' = rec.eff_cost]_vars

\* C18. Header invariant under failures: a partition file created by the
\* program (absent or empty at its start) that holds a data row has the
\* header as its first row.
C18_HeaderBeforeRows ==
    \A p \in Paths :
        ((~g_init[p].exists \/ g_init[p].rows = <<>>) /\ DataRows(files[p]) >= 1)
            => files[p].rows[1] = CSV_HEADERS

\* as long as no write to a partition has failed, the header precedes its rows
C18_HeaderWithoutFailures ==
    \A p \in Paths :
        (/\ ~g_init[p].exists \/ g_init[p].rows = <<>>
         /\ ~g_failed[p]
         /\ DataRows(files[p]) >= 1)
            => files[p].rows[1] = CSV_HEADERS

\* C19. Reset ordering: end() on an active session does not reset its timing
\* state, which stays as it is while the summary is open; when the summary
\* is closed, by a save that succeeded or failed or by skip, the session is
\* Idle: not running, not paused, no start timestamps, paused_accum = 0 and
\* no open pause.
C19_ResetOrdering ==
    [][/\ (pc = "main" /\ pc' = "summary") =>
              /\ running' /\ paused' = paused
              /\ start_time' = start_time /\ start_time' # None
              /\ call_started_at' = call_started_at /\ call_started_at' # None
       /\ (pc = "summary" /\ pc' = "summary") => UNCHANGED timer
       /\ PopupCloses =>
              /\ last_op' \in {"save_ok", "save_failed", "skip"}
              /\ ~running' /\ ~paused'
              /\ start_time' = None /\ call_started_at' = None
              /\ paused_accum' = 0 /\ pause_started' = None]_vars

\* a call that was paused for a minute, ended, and reset by a failed save
C19_Witness ==
    /\ last_op = "save_failed"
    /\ pc = "main" /\ ~running /\ ~paused
    /\ start_time = None /\ paused_accum = 0
    /\ now >= 120 /\ g_ends = 1
    /\ pause_btn = "Pause"
    /\ \E p \in Paths : g_failed[p]

\* C20. Declined restart is a no-op: start() on an active session whose
\* confirmation is declined leaves running, paused, start_time,
\* call_started_at, paused_accum, pause_started and the ledger unchanged, and
\* the elapsed seconds are what they were.
C20_DeclinedRestartNoOp ==
    [][on_new_declined =>
         /\ UNCHANGED timer
         /\ files' = files
         /\ pc' = "main" /\ g_ends' = g_ends
         /\ _elapsed_seconds(paused_accum, pause_started, now, now)'
                = _elapsed_seconds(paused_accum, pause_started, now, now)]_vars

\* a restart declined on a paused session that had been paused before
C20_Witness ==
    /\ last_op = "new_declined"
    /\ running /\ paused
    /\ paused_accum > 0 /\ pause_started # None
    /\ notices = <<"Start New Call?">>

\* C21. pause() is a no-op when no call is active: on an idle session it
\* changes no session field and the elapsed seconds stay 0; on a running
\* session it sets paused and pause_started = now; on a paused session it
\* adds now - pause_started to paused_accum and clears pause_started.
C21_PauseToggle ==
    [][(pc = "main" /\ on_pause) =>
         /\ ~running =>
                /\ UNCHANGED timer
                /\ _elapsed_seconds(paused_accum, pause_started, now, now) = 0
                /\ _elapsed_seconds(paused_accum, pause_started, now, now)' = 0
         /\ (running /\ ~paused) =>
                /\ running' /\ paused'
                /\ pause_started' = now
                /\ paused_accum' = paused_accum
                /\ start_time' = start_time
         /\ (running /\ paused) =>
                /\ running' /\ ~paused'
                /\ paused_accum' = paused_accum + (now - pause_started)
                /\ pause_started' = None
                /\ start_time' = start_time]_vars

\* pause() pressed on a session that is idle again after a call
C21_Witness ==
    /\ last_op = "pause_idle"
    /\ ~running /\ ~paused
    /\ start_time = None /\ pause_started = None /\ paused_accum = 0
    /\ g_ends >= 1

\* C22. Session well-formedness: paused implies running; pause_started is
\* absent whenever the session is not paused; paused_accum >= 0; and when
\* running is false, start_time, call_started_at and pause_started are
\* absent, paused_accum = 0 and the elapsed seconds are 0.
C22_WellFormed ==
    /\ paused => running
    /\ ~paused => pause_started = None
    /\ paused_accum >= 0
    /\ ~running =>
           /\ start_time = None /\ call_started_at = None
           /\ paused_accum = 0 /\ pause_started = None
           /\ _elapsed_seconds(paused_accum, pause_started, now, now) = 0

\* a second call, paused for the second time
C22_Witness ==
    /\ running /\ paused
    /\ pause_started # None /\ paused_accum > 0
    /\ g_ends >= 1

\* C23. Pause control label consistency: the pause control reads "Resume"
\* exactly when the session is paused and "Pause" otherwise.
C23_PauseLabel ==
    /\ pause_btn \in {"Pause", "Resume"}
    /\ (pause_btn = "Resume") <=> paused

\* the label agrees with the session as long as no call has been restarted
C23_LabelWithoutRestart ==
    [][(last_op' # "restart" /\ ((pause_btn = "Resume") <=> paused))
           => ((pause_btn' = "Resume") <=> paused')]_vars

====
